---------------------------- MODULE Spec2Model ----------------------------
(***************************************************************************)
(* Model of app.py, the SSNIT records management system: the loader /      *)
(* normaliser (load_data), the age calculator (calculate_age), the three   *)
(* query functions (search_by_unit_holder_id, get_withdrawal_records,      *)
(* get_retiree_records), identifier validation and the export code of the  *)
(* tabs.                                                                   *)
(*                                                                         *)
(* Text is a sequence of one-character strings, so that str.strip,         *)
(* str.lower, the numeric parsers and the renderers are computed and not   *)
(* assumed.  A DataFrame is a record [cols, rows]: cols is the column      *)
(* index in order, rows the rows in positional order; a row keeps the      *)
(* pandas index label it got from read_csv (idx) and its cells (c).        *)
(***************************************************************************)
EXTENDS Integers, Sequences, FiniteSets, TLC

VARIABLES
    disk,     \* the CSV files of the working directory, in os.listdir order
    today,    \* date.today(), as the integer yyyymmdd
    cache,    \* st.cache_data's entry for load_data: <<>> or <<[df, filename]>>
    df,       \* the DataFrame main() got from load_data()
    filename, \* the file name main() got from load_data()
    pc,       \* "start": no run yet; "ready": main() passed the empty check;
              \* "stopped": main() ended in st.stop()
    out       \* what the last operation returned or rendered

vars == <<disk, today, cache, df, filename, pc, out>>

----------------------------------------------------------------------------
(* Text *)

Digits == <<"0", "1", "2", "3", "4", "5", "6", "7", "8", "9">>

UpperCase == <<"A", "B", "C", "D", "E", "F", "G", "H", "I", "J", "K", "L", "M",
               "N", "O", "P", "Q", "R", "S", "T", "U", "V", "W", "X", "Y", "Z">>

LowerCase == <<"a", "b", "c", "d", "e", "f", "g", "h", "i", "j", "k", "l", "m",
               "n", "o", "p", "q", "r", "s", "t", "u", "v", "w", "x", "y", "z">>

WhiteSpace == {" ", "\t"}

IsDigit(ch) == \E i \in 1..10 : Digits[i] = ch

DigitVal(ch) == (CHOOSE i \in 1..10 : Digits[i] = ch) - 1

\* str.lower on one character
LowerChar(ch) ==
    IF \E i \in 1..26 : UpperCase[i] = ch
    THEN LowerCase[CHOOSE i \in 1..26 : UpperCase[i] = ch]
    ELSE ch

\* str.lower
Lower(s) == [i \in 1..Len(s) |-> LowerChar(s[i])]

RECURSIVE LStrip(_)
LStrip(s) ==
    IF s # <<>> /\ Head(s) \in WhiteSpace THEN LStrip(Tail(s)) ELSE s

RECURSIVE RStrip(_)
RStrip(s) ==
    IF s # <<>> /\ s[Len(s)] \in WhiteSpace
    THEN RStrip(SubSeq(s, 1, Len(s) - 1))
    ELSE s

\* str.strip
Strip(s) == RStrip(LStrip(s))

AllDigits(s) == s # <<>> /\ \A i \in 1..Len(s) : IsDigit(s[i])

RECURSIVE ParseNat(_)
ParseNat(s) ==
    IF s = <<>> THEN 0
    ELSE 10 * ParseNat(SubSeq(s, 1, Len(s) - 1)) + DigitVal(s[Len(s)])

RECURSIVE NatText(_)
NatText(n) ==
    IF n < 10 THEN <<Digits[n + 1]>>
    ELSE NatText(n \div 10) \o <<Digits[(n % 10) + 1]>>

\* str(int)
IntText(n) == IF n < 0 THEN <<"-">> \o NatText(0 - n) ELSE NatText(n)

\* n as text of exactly w digits, zero padded
RECURSIVE PadText(_, _)
PadText(n, w) ==
    IF w = 0 THEN <<>>
    ELSE PadText(n \div 10, w - 1) \o <<Digits[(n % 10) + 1]>>

\* the position of the first "." of s, 0 when it has none
DotPos(s) ==
    IF \E i \in 1..Len(s) : s[i] = "."
    THEN CHOOSE i \in 1..Len(s) : s[i] = "." /\ \A j \in 1..(i - 1) : s[j] # "."
    ELSE 0

Unsigned(s) == IF s # <<>> /\ Head(s) = "-" THEN Tail(s) ELSE s

\* An integer literal as the C parser and to_numeric take it: optional
\* surrounding white space, an optional sign and digits.
IsIntText(s) == AllDigits(Unsigned(Strip(s)))

\* A decimal literal: an integer literal or one with a fractional part.
IsNumText(s) ==
    LET u == Unsigned(Strip(s))
        d == DotPos(u)
    IN  IF d = 0 THEN AllDigits(u)
        ELSE AllDigits(SubSeq(u, 1, d - 1)) /\ AllDigits(SubSeq(u, d + 1, Len(u)))

\* The integral part of a decimal literal (the data of the model carries no
\* fractional amounts: every literal it reads ends in ".0" or has no point).
ParseNum(s) ==
    LET t == Strip(s)
        u == Unsigned(t)
        d == DotPos(u)
        m == ParseNat(IF d = 0 THEN u ELSE SubSeq(u, 1, d - 1))
    IN  IF t # <<>> /\ Head(t) = "-" THEN 0 - m ELSE m

----------------------------------------------------------------------------
(* Cell values: NaN / None / NaT, int64, float64, str and Timestamp *)

NaN == [k |-> "nan", n |-> 0, s |-> <<>>]

IntV(n) == [k |-> "int", n |-> n, s |-> <<>>]

FloatV(n) == [k |-> "float", n |-> n, s |-> <<>>]

StrV(s) == [k |-> "str", n |-> 0, s |-> s]

\* a Timestamp at midnight of the day yyyymmdd
DateV(n) == [k |-> "date", n |-> n, s |-> <<>>]

\* pd.isna
IsNa(v) == v.k = "nan"

IsNum(v) == v.k \in {"int", "float"}

YearOf(d) == d \div 10000

MonthOf(d) == (d \div 100) % 100

DayOf(d) == d % 100

IsLeap(y) == (y % 4 = 0 /\ y % 100 # 0) \/ y % 400 = 0

DaysIn(y, m) ==
    IF m = 2 THEN (IF IsLeap(y) THEN 29 ELSE 28)
    ELSE IF m \in {4, 6, 9, 11} THEN 30 ELSE 31

\* Timestamp rendered as to_csv and str do for a date without time
DateText(d) ==
    PadText(YearOf(d), 4) \o <<"-">> \o PadText(MonthOf(d), 2)
        \o <<"-">> \o PadText(DayOf(d), 2)

\* The text of an ISO date yyyy-mm-dd that names a day of the calendar
IsDateText(s) ==
    /\ Len(s) = 10
    /\ s[5] = "-" /\ s[8] = "-"
    /\ AllDigits(SubSeq(s, 1, 4)) /\ AllDigits(SubSeq(s, 6, 7))
    /\ AllDigits(SubSeq(s, 9, 10))
    /\ LET y == ParseNat(SubSeq(s, 1, 4))
           m == ParseNat(SubSeq(s, 6, 7))
           d == ParseNat(SubSeq(s, 9, 10))
       IN  m \in 1..12 /\ d \in 1..DaysIn(y, m)

ParseDate(s) ==
    ParseNat(SubSeq(s, 1, 4)) * 10000 + ParseNat(SubSeq(s, 6, 7)) * 100
        + ParseNat(SubSeq(s, 9, 10))

\* astype(str) / str() of one value
Str(v) ==
    CASE v.k = "nan" -> <<"n", "a", "n">>
      [] v.k = "int" -> IntText(v.n)
      [] v.k = "float" -> IntText(v.n) \o <<".", "0">>
      [] v.k = "date" -> DateText(v.n)
      [] OTHER -> v.s


----------------------------------------------------------------------------
(* DataFrames *)

\* pd.DataFrame()
EmptyDF == [cols |-> <<>>, rows |-> <<>>]

Columns(d) == {d.cols[i] : i \in 1..Len(d.cols)}

\* len(d)
NRows(d) == Len(d.rows)

\* d.empty: no columns or no rows
IsEmpty(d) == d.cols = <<>> \/ d.rows = <<>>

\* d[c], positionally
Col(d, c) == [i \in 1..NRows(d) |-> d.rows[i].c[c]]

\* d[c] = vals: replaces the column in place, or appends it as the last one
SetCol(d, c, vals) ==
    [cols |-> IF c \in Columns(d) THEN d.cols ELSE Append(d.cols, c),
     rows |-> [i \in 1..NRows(d) |->
                 [idx |-> d.rows[i].idx,
                  c |-> [x \in DOMAIN d.rows[i].c \cup {c} |->
                           IF x = c THEN vals[i] ELSE d.rows[i].c[x]]]]]

\* d[cs]: the columns cs, in the order of cs
Select(d, cs) ==
    [cols |-> cs,
     rows |-> [i \in 1..NRows(d) |->
                 [idx |-> d.rows[i].idx,
                  c |-> [x \in {cs[j] : j \in 1..Len(cs)} |-> d.rows[i].c[x]]]]]

\* d[mask]: the rows whose position is in keep, in their order
RECURSIVE FilterRows(_, _)
FilterRows(rows, keep) ==
    IF rows = <<>> THEN <<>>
    ELSE LET front == FilterRows(SubSeq(rows, 1, Len(rows) - 1), keep)
         IN  IF Len(rows) \in keep THEN Append(front, rows[Len(rows)]) ELSE front

\* A numeric column has one dtype: float64 as soon as one value is NaN or a
\* float, int64 otherwise.
NumCol(vals) ==
    IF \E i \in DOMAIN vals : vals[i].k \in {"nan", "float"}
    THEN [i \in DOMAIN vals |->
            IF IsNum(vals[i]) THEN FloatV(vals[i].n) ELSE vals[i]]
    ELSE vals

\* Three-way comparison of two sort keys, NaN after every number
\* (na_position = 'last')
CmpKey(x, y) ==
    IF IsNa(x) /\ IsNa(y) THEN 0
    ELSE IF IsNa(x) THEN 1
    ELSE IF IsNa(y) THEN 0 - 1
    ELSE IF x.n < y.n THEN 0 - 1
    ELSE IF x.n > y.n THEN 1 ELSE 0

\* (Year, Month_numeric) of row a is at most that of row b
KeyLE(a, b) ==
    LET y == CmpKey(a.c["Year"], b.c["Year"])
    IN  y < 0 \/ (y = 0 /\ CmpKey(a.c["Month_numeric"], b.c["Month_numeric"]) <= 0)

RECURSIVE InsertRow(_, _)
InsertRow(rows, r) ==
    IF rows = <<>> THEN <<r>>
    ELSE IF KeyLE(rows[Len(rows)], r) THEN Append(rows, r)
    ELSE Append(InsertRow(SubSeq(rows, 1, Len(rows) - 1), r), rows[Len(rows)])

RECURSIVE SortRows(_)
SortRows(rows) ==
    IF rows = <<>> THEN <<>>
    ELSE InsertRow(SortRows(SubSeq(rows, 1, Len(rows) - 1)), rows[Len(rows)])

\* d.sort_values(['Year', 'Month_numeric'], ascending=[True, True]): the
\* multi-key sort is a stable lexsort, rows with equal keys keep their order.
SortValues(d) == [cols |-> d.cols, rows |-> SortRows(d.rows)]

\* The guarded sort every query and the loader end with
SortIfKeyed(d) ==
    IF "Year" \in Columns(d) /\ "Month_numeric" \in Columns(d)
    THEN SortValues(d)
    ELSE d

----------------------------------------------------------------------------
(* pandas conversions used by load_data *)

T_nan == <<"n", "a", "n">>

\* Cell texts read_csv takes for a missing value (its default na_values; the
\* ones that occur in the data of the model)
NaTexts == {<<>>, T_nan, <<"N", "a", "N">>, <<"N", "A">>, <<"N", "/", "A">>}

FileColumns(f) == {f.cols[i] : i \in 1..Len(f.cols)}

\* The dtype read_csv infers for column c of file f
InferredKind(f, c) ==
    LET cells == {f.rows[i][c] : i \in 1..Len(f.rows)}
        given == {t \in cells : t \notin NaTexts}
    IN  IF \A t \in given : IsIntText(t)
        THEN (IF given = cells THEN "int" ELSE "float")
        ELSE IF \A t \in given : IsNumText(t) THEN "float" ELSE "object"

ReadCell(kind, t) ==
    IF t \in NaTexts THEN NaN
    ELSE IF kind = "int" THEN IntV(ParseNum(t))
    ELSE IF kind = "float" THEN FloatV(ParseNum(t))
    ELSE StrV(t)

\* pd.read_csv(file): a file without a header line raises EmptyDataError
ReadCsvFails(f) == f.cols = <<>>

ReadCsv(f) ==
    [cols |-> f.cols,
     rows |-> [i \in 1..Len(f.rows) |->
                 [idx |-> i - 1,
                  c |-> [x \in FileColumns(f) |->
                           ReadCell(InferredKind(f, x), f.rows[i][x])]]]]

\* pd.to_datetime(v, errors='coerce') on one value; a number is taken as
\* nanoseconds since the epoch, which is a moment of 1970-01-01
ToDatetime(v) ==
    IF v.k = "date" THEN v
    ELSE IF IsNum(v) THEN DateV(19700101)
    ELSE IF v.k = "str" /\ IsDateText(v.s) THEN DateV(ParseDate(v.s))
    ELSE NaN

\* pd.to_numeric(v, errors='coerce') on one value
ToNumeric(v) ==
    IF IsNum(v) THEN v
    ELSE IF v.k = "str" /\ IsIntText(v.s) THEN IntV(ParseNum(v.s))
    ELSE IF v.k = "str" /\ IsNumText(v.s) THEN FloatV(ParseNum(v.s))
    ELSE NaN

\* fillna(0)
FillNa0(v) == IF IsNa(v) THEN FloatV(0) ELSE v

MonthNames ==
    << <<"j", "a", "n", "u", "a", "r", "y">>,
       <<"f", "e", "b", "r", "u", "a", "r", "y">>,
       <<"m", "a", "r", "c", "h">>,
       <<"a", "p", "r", "i", "l">>,
       <<"m", "a", "y">>,
       <<"j", "u", "n", "e">>,
       <<"j", "u", "l", "y">>,
       <<"a", "u", "g", "u", "s", "t">>,
       <<"s", "e", "p", "t", "e", "m", "b", "e", "r">>,
       <<"o", "c", "t", "o", "b", "e", "r">>,
       <<"n", "o", "v", "e", "m", "b", "e", "r">>,
       <<"d", "e", "c", "e", "m", "b", "e", "r">> >>

\* month_map: the three-letter abbreviation and the full name of each month
InMonthMap(s) ==
    \E m \in 1..12 : s = MonthNames[m] \/ s = SubSeq(MonthNames[m], 1, 3)

\* .map(month_map) on one key: its rank, NaN for a key the map does not hold
month_map(s) ==
    IF InMonthMap(s)
    THEN IntV(CHOOSE m \in 1..12 : s = MonthNames[m] \/ s = SubSeq(MonthNames[m], 1, 3))
    ELSE NaN

\* df['Month'].astype(str).str.lower().str.strip().map(month_map) on one value
MonthNumeric(v) == month_map(Strip(Lower(Str(v))))

----------------------------------------------------------------------------
(* load_data *)

\* df['Social Security #'].astype(str).str.strip()
CleanSocialSecurity(d) ==
    IF "Social Security #" \in Columns(d)
    THEN SetCol(d, "Social Security #",
                [i \in 1..NRows(d) |->
                   StrV(Strip(Str(d.rows[i].c["Social Security #"])))])
    ELSE d

date_columns == <<"Date_of_Birth", "combined", "DOB", "Birth_Date">>

\* The first date column of the priority list that the frame has is parsed
\* in place and copied to birth_date; the others are left as read.
StandardiseBirthDate(d) ==
    IF \E j \in 1..Len(date_columns) : date_columns[j] \in Columns(d)
    THEN LET j == CHOOSE j \in 1..Len(date_columns) :
                    /\ date_columns[j] \in Columns(d)
                    /\ \A h \in 1..(j - 1) : date_columns[h] \notin Columns(d)
             parsed == [i \in 1..NRows(d) |-> ToDatetime(d.rows[i].c[date_columns[j]])]
         IN  SetCol(SetCol(d, date_columns[j], parsed), "birth_date", parsed)
    ELSE d

\* df['Year'] = pd.to_numeric(df['Year'], errors='coerce')
ConvertYear(d) ==
    IF "Year" \in Columns(d)
    THEN SetCol(d, "Year",
                NumCol([i \in 1..NRows(d) |-> ToNumeric(d.rows[i].c["Year"])]))
    ELSE d

\* Month_original keeps the text of Month, Month_numeric is its rank
DeriveMonth(d) ==
    IF "Month" \in Columns(d)
    THEN LET orig == [i \in 1..NRows(d) |-> StrV(Str(d.rows[i].c["Month"]))]
             rank == NumCol([i \in 1..NRows(d) |-> MonthNumeric(d.rows[i].c["Month"])])
         IN  SetCol(SetCol(d, "Month_original", orig), "Month_numeric", rank)
    ELSE d

\* df['Withdrawals'] = pd.to_numeric(df['Withdrawals'], errors='coerce').fillna(0)
CleanWithdrawals(d) ==
    IF "Withdrawals" \in Columns(d)
    THEN SetCol(d, "Withdrawals",
                NumCol([i \in 1..NRows(d) |->
                          FillNa0(ToNumeric(d.rows[i].c["Withdrawals"]))]))
    ELSE d

\* The body of load_data after read_csv
Normalise(d) ==
    CleanWithdrawals(SortIfKeyed(DeriveMonth(ConvertYear(
        StandardiseBirthDate(CleanSocialSecurity(d))))))

\* Combined.csv if the directory has it, else the first file listed
FileToUse(dsk) ==
    IF \E i \in 1..Len(dsk) : dsk[i].name = "Combined.csv"
    THEN dsk[CHOOSE i \in 1..Len(dsk) : dsk[i].name = "Combined.csv"]
    ELSE dsk[1]

\* load_data(): the frame, the file name and the st.error / st.success shown
load_data(dsk) ==
    IF dsk = <<>>
    THEN [df |-> EmptyDF, filename |-> "", diag |-> "No CSV files found"]
    ELSE IF ReadCsvFails(FileToUse(dsk))
    THEN [df |-> EmptyDF, filename |-> "", diag |-> "Error loading data"]
    ELSE [df |-> Normalise(ReadCsv(FileToUse(dsk))),
          filename |-> FileToUse(dsk).name,
          diag |-> "Data loaded successfully"]

----------------------------------------------------------------------------
(* validate_unit_holder_id, calculate_age *)

\* validate_unit_holder_id(text): (False, reason) or (True, cleaned text)
validate_unit_holder_id(text) ==
    IF text = <<>>
    THEN [valid |-> FALSE, clean |-> <<>>, reason |-> "Please enter a Unit Holder ID"]
    ELSE IF Len(Strip(text)) < 3
    THEN [valid |-> FALSE, clean |-> <<>>, reason |-> "Unit Holder ID seems too short"]
    ELSE [valid |-> TRUE, clean |-> Strip(text), reason |-> ""]

NotApplicable == StrV(<<"N", "/", "A">>)


\* YearsBetween counting the birthday only from the day after
YearsBetweenLate(b, t) ==
    YearOf(t) - YearOf(b)
      - (IF MonthOf(t) < MonthOf(b) \/ (MonthOf(t) = MonthOf(b) /\ DayOf(t) <= DayOf(b))
         THEN 1 ELSE 0)

\* today.year - birth.year - ((today.month, today.day) < (birth.month, birth.day))
YearsBetween(b, t) ==
    YearOf(t) - YearOf(b)
      - (IF MonthOf(t) < MonthOf(b) \/ (MonthOf(t) = MonthOf(b) /\ DayOf(t) < DayOf(b))
         THEN 1 ELSE 0)

\* The try block of calculate_age: the value it computes, or the exception
\* it ends with.  A str is parsed first (pd.to_datetime raises on text that
\* is no date); anything that is no Timestamp after that has no .date().
AgeTryBlock(b, t) ==
    LET ts == IF b.k = "str"
              THEN (IF IsDateText(b.s) THEN DateV(ParseDate(b.s)) ELSE NaN)
              ELSE b
    IN  IF ts.k = "date"
        THEN [val |-> IntV(YearsBetween(ts.n, t)), raised |-> FALSE]
        ELSE [val |-> NaN, raised |-> TRUE]

\* except: return "N/A"
AgeExcept(r) == IF r.raised THEN [val |-> NotApplicable, raised |-> FALSE] ELSE r

\* calculate_age(birth_date) on the day t
calculate_age(b, t) ==
    IF IsNa(b) THEN [val |-> NotApplicable, raised |-> FALSE]
    ELSE AgeExcept(AgeTryBlock(b, t))

----------------------------------------------------------------------------
(* The query layer *)


\* MatchForm without the strip
MatchFormUntrimmed(v) == Str(v)

\* The form both sides of the identifier comparison are brought to:
\* astype(str).str.strip() for the column, str(x).strip() for the query
MatchForm(v) == Strip(Str(v))


\* NoMatch without the check: the function goes on with an empty frame
NoMatchUnchecked(d) == d # d

\* len(all_results) == 0
NoMatch(d) == NRows(d) = 0

\* search_by_unit_holder_id(df, unit_holder_id): (latest_record, all_results).
\* raised marks an exception leaving the function (iloc[[-1]] of an empty
\* frame is an IndexError).
search_by_unit_holder_id(d, q) ==
    IF "Unit Holder ID" \notin Columns(d)
    THEN [latest |-> EmptyDF, history |-> EmptyDF, raised |-> FALSE]
    ELSE LET copy == SetCol(d, "Unit Holder ID",
                            [i \in 1..NRows(d) |->
                               StrV(MatchForm(d.rows[i].c["Unit Holder ID"]))])
             all == [cols |-> copy.cols,
                     rows |-> FilterRows(copy.rows,
                                {i \in 1..NRows(copy) :
                                   copy.rows[i].c["Unit Holder ID"].s = MatchForm(q)})]
         IN  IF NoMatch(all)
             THEN [latest |-> EmptyDF, history |-> EmptyDF, raised |-> FALSE]
             ELSE LET sorted == SortIfKeyed(all)
                  IN  IF NRows(sorted) = 0
                      THEN [latest |-> EmptyDF, history |-> EmptyDF, raised |-> TRUE]
                      ELSE [latest |-> [cols |-> sorted.cols,
                                        rows |-> <<sorted.rows[NRows(sorted)]>>],
                            history |-> sorted,
                            raised |-> FALSE]


\* IsWithdrawal taking only disbursements for withdrawals
IsPositiveWithdrawal(v) == IsNum(v) /\ v.n > 0

\* df['Withdrawals'] != 0 on one value: NaN and text differ from 0 too
IsWithdrawal(v) == ~(IsNum(v) /\ v.n = 0)

\* d['Age'] = d['birth_date'].apply(calculate_age)
WithAge(d, t) ==
    SetCol(d, "Age", [i \in 1..NRows(d) |-> calculate_age(d.rows[i].c["birth_date"], t).val])

\* get_withdrawal_records(df) on the day t
get_withdrawal_records(d, t) ==
    IF "Withdrawals" \notin Columns(d) THEN EmptyDF
    ELSE LET w == [cols |-> d.cols,
                   rows |-> FilterRows(d.rows,
                              {i \in 1..NRows(d) : IsWithdrawal(d.rows[i].c["Withdrawals"])})]
         IN  SortIfKeyed(IF "birth_date" \in Columns(w) THEN WithAge(w, t) ELSE w)

\* df_with_age['Age'] != "N/A"
IsNumericAge(v) == v # NotApplicable


\* IsRetireeAge with a strict comparison
IsOverSixty(v) == v.n > 60

\* numeric_ages['Age'] >= 60
IsRetireeAge(v) == v.n >= 60

\* get_retiree_records(df) on the day t
get_retiree_records(d, t) ==
    IF "birth_date" \notin Columns(d) THEN EmptyDF
    ELSE LET a == WithAge(d, t)
             numeric == [cols |-> a.cols,
                         rows |-> FilterRows(a.rows,
                                    {i \in 1..NRows(a) : IsNumericAge(a.rows[i].c["Age"])})]
             retirees == [cols |-> numeric.cols,
                          rows |-> FilterRows(numeric.rows,
                                     {i \in 1..NRows(numeric) :
                                        IsRetireeAge(numeric.rows[i].c["Age"])})]
         IN  SortIfKeyed(retirees)

----------------------------------------------------------------------------
(* Export: to_csv and the export code of the three tabs *)

\* One cell as to_csv writes it: a missing value as the empty text
CsvText(v) ==
    CASE v.k = "nan" -> <<>>
      [] v.k = "int" -> IntText(v.n)
      [] v.k = "float" -> IntText(v.n) \o <<".", "0">>
      [] v.k = "date" -> DateText(v.n)
      [] OTHER -> v.s

\* d.to_csv(index=False), as the file a download of it is
to_csv(d, name) ==
    [name |-> name,
     cols |-> d.cols,
     rows |-> [i \in 1..NRows(d) |-> [x \in Columns(d) |-> CsvText(d.rows[i].c[x])]]]

\* export = sel[df.columns]; export['Month'] = export['Month_original'] if the
\* latter is a column
ExportFrame(sel, d) ==
    LET e == Select(sel, d.cols)
    IN  IF "Month_original" \in Columns(e)
        THEN SetCol(e, "Month", Col(e, "Month_original"))
        ELSE e

\* case-insensitive str.contains of a literal pattern
Contains(text, pat) ==
    \E i \in 1..(Len(text) - Len(pat) + 1) :
        SubSeq(Lower(text), i, i + Len(pat) - 1) = Lower(pat)

\* records_lookup_tab(df, filename) with the text of the input box and the
\* state of the Search button: what it shows, whether and with what it
\* called the lookup, and the two downloads it offers
records_lookup_tab(d, text, button) ==
    LET idle == [op |-> "lookup_tab", text |-> text, button |-> button,
                 validated |-> FALSE, box |-> "none", reason |-> "",
                 searched |-> FALSE, arg |-> <<>>,
                 latest |-> EmptyDF, history |-> EmptyDF,
                 export_latest |-> <<>>, export_all |-> <<>>]
    IN  IF ~(button \/ text # <<>>) \/ text = <<>> THEN idle
        ELSE LET v == validate_unit_holder_id(text)
             IN  IF ~v.valid
                 THEN [idle EXCEPT !.validated = TRUE, !.box = "error",
                                   !.reason = v.reason]
                 ELSE LET r == search_by_unit_holder_id(d, StrV(v.clean))
                      IN  IF NRows(r.latest) = 0
                          THEN [idle EXCEPT !.validated = TRUE, !.box = "not_found",
                                            !.searched = TRUE, !.arg = v.clean]
                          ELSE [idle EXCEPT
                                  !.validated = TRUE, !.box = "found",
                                  !.searched = TRUE, !.arg = v.clean,
                                  !.latest = r.latest, !.history = r.history,
                                  !.export_latest =
                                      <<to_csv(ExportFrame(r.latest, d), "latest_record.csv")>>,
                                  !.export_all =
                                      IF NRows(r.history) > 1
                                      THEN <<to_csv(ExportFrame(r.history, d), "all_records.csv")>>
                                      ELSE <<>>]

\* The columns st.dataframe is given; a missing one is a KeyError
withdrawal_display == <<"Contributor Name", "Unit Holder ID", "Withdrawals", "Year", "Month">>

retiree_display ==
    <<"Contributor Name", "Unit Holder ID", "Age", "birth_date", "Year", "Month">>

\* display_df = filtered.copy() with Month set from Month_original
DisplayColumns(d) ==
    IF "Month_original" \in Columns(d) THEN Columns(d) \cup {"Month"} ELSE Columns(d)

\* The amount compared with the threshold as it is, the sign kept
MeetsMinimumSigned(n, min) == n >= min

\* abs(filtered_records['Withdrawals']) >= min_amount
MeetsMinimum(n, min) == (IF n < 0 THEN 0 - n ELSE n) >= min

\* The secondary filters of the withdrawals tab: identifier substring,
\* minimum absolute amount (<<>> is None), sign
WithdrawalFilter(w, search, min, type) ==
    LET amount(i) == w.rows[i].c["Withdrawals"].n
    IN  [cols |-> w.cols,
         rows |-> FilterRows(w.rows,
                    {i \in 1..NRows(w) :
                       /\ search # <<>> => Contains(Str(w.rows[i].c["Unit Holder ID"]), search)
                       /\ min # <<>> => MeetsMinimum(amount(i), min[1])
                       /\ type = "Positive Only" => amount(i) > 0
                       /\ type = "Negative Only" => amount(i) < 0})]

\* withdrawals_tab(df, filename) with the values of its three widgets;
\* filtered is the frame the filters leave (the one "Results (n records)"
\* counts), <<>> when the run does not get that far
withdrawals_tab(d, t, search, min, type) ==
    LET w == get_withdrawal_records(d, t)
        base == [op |-> "withdrawals_tab", search |-> search, min |-> min,
                 type |-> type, records |-> w, box |-> "warning",
                 filtered |-> <<>>, shown |-> EmptyDF, raised |-> FALSE,
                 export |-> <<>>]
    IN  IF NRows(w) = 0 THEN base
        ELSE IF search # <<>> /\ "Unit Holder ID" \notin Columns(w)
        THEN [base EXCEPT !.box = "exception", !.raised = TRUE]
        ELSE LET f == WithdrawalFilter(w, search, min, type)
             IN  IF NRows(f) = 0
                 THEN [base EXCEPT !.box = "no_match", !.filtered = <<f>>]
                 ELSE IF \E j \in 1..Len(withdrawal_display) :
                            withdrawal_display[j] \notin DisplayColumns(f)
                 THEN [base EXCEPT !.box = "exception", !.raised = TRUE,
                                   !.filtered = <<f>>]
                 ELSE [base EXCEPT
                         !.box = "results", !.filtered = <<f>>, !.shown = f,
                         !.export = <<to_csv(ExportFrame(f, d), "withdrawal_records.csv")>>]

\* The secondary filters of the retirees tab: identifier substring and the
\* inclusive age range
RetireeFilter(r, search, min_age, max_age) ==
    [cols |-> r.cols,
     rows |-> FilterRows(r.rows,
                {i \in 1..NRows(r) :
                   /\ search # <<>> => Contains(Str(r.rows[i].c["Unit Holder ID"]), search)
                   /\ r.rows[i].c["Age"].n >= min_age
                   /\ r.rows[i].c["Age"].n <= max_age})]

\* retirees_tab(df, filename) with the values of its three widgets
retirees_tab(d, t, search, min_age, max_age) ==
    LET r == get_retiree_records(d, t)
        base == [op |-> "retirees_tab", search |-> search, min_age |-> min_age,
                 max_age |-> max_age, records |-> r, box |-> "warning",
                 shown |-> EmptyDF, raised |-> FALSE, export |-> <<>>]
    IN  IF NRows(r) = 0 THEN base
        ELSE IF search # <<>> /\ "Unit Holder ID" \notin Columns(r)
        THEN [base EXCEPT !.box = "exception", !.raised = TRUE]
        ELSE LET f == RetireeFilter(r, search, min_age, max_age)
             IN  IF NRows(f) = 0 THEN [base EXCEPT !.box = "no_match"]
                 ELSE IF \E j \in 1..Len(retiree_display) :
                            retiree_display[j] \notin DisplayColumns(f)
                 THEN [base EXCEPT !.box = "exception", !.raised = TRUE]
                 ELSE [base EXCEPT
                         !.box = "results", !.shown = f,
                         !.export = <<to_csv(ExportFrame(f, d), "retiree_records.csv")>>]

----------------------------------------------------------------------------
(* The data the model is run on *)

\* The most rows a source file has
MaxRows == 2

T_123 == <<"1", "2", "3">>

T_123_padded == <<" ", "1", "2", "3", " ">>

T_A12 == <<"A", "1", "2">>

T_A12_padded == <<" ", "A", "1", "2">>

T_B34 == <<"B", "3", "4">>

T_999 == <<"9", "9", "9">>

T_2021 == <<"2", "0", "2", "1">>

T_2022 == <<"2", "0", "2", "2">>

T_Jan == <<"J", "a", "n">>

T_DEC == <<" ", "D", "E", "C">>

T_Foo == <<"F", "o", "o">>

T_Ama == <<"A", "m", "a">>

T_note == <<"o", "k">>

T_abc == <<"a", "b", "c">>

T_born_1964 == <<"1", "9", "6", "4", "-", "0", "6", "-", "1", "5">>

T_born_1950 == <<"1", "9", "5", "0", "-", "0", "1", "-", "3", "1">>

T_born_2000 == <<"2", "0", "0", "0", "-", "0", "6", "-", "1", "5">>

T_no_date == <<"n", ".", "d", ".">>

SeqsUpTo(S, n) == UNION {[1..k -> S] : k \in 0..n}

\* The rows over the columns cols whose cell of column x is one of cells[x]
RECURSIVE RowsOver(_, _)
RowsOver(cols, cells) ==
    IF cols = <<>> THEN {[x \in {} |-> <<>>]}
    ELSE {(Head(cols) :> t) @@ r : t \in cells[Head(cols)], r \in RowsOver(Tail(cols), cells)}

\* The directories holding one file data.csv with the columns cols
DisksOver(cols, cells) ==
    {<<[name |-> "data.csv", cols |-> cols, rows |-> rows]>> :
        rows \in SeqsUpTo(RowsOver(cols, cells), MaxRows)}

\* An empty directory, and one whose file is empty (read_csv fails on it)
NoDataDisks == {<<>>, <<[name |-> "data.csv", cols |-> <<>>, rows |-> <<>>]>>}

LookupCells ==
    [x \in {"Unit Holder ID", "Note", "Year", "Month"} |->
        CASE x = "Unit Holder ID" -> {T_123, T_A12_padded}
          [] x = "Note" -> {T_note}
          [] x = "Year" -> {T_2021, T_2022, <<>>}
          [] x = "Month" -> {T_Jan, T_DEC, T_Foo}]

LookupDisks ==
    NoDataDisks
      \cup DisksOver(<<"Unit Holder ID", "Note", "Year", "Month">>, LookupCells)
      \cup DisksOver(<<"Unit Holder ID", "Year">>, LookupCells)
      \cup DisksOver(<<"Year", "Month">>, LookupCells)

WithdrawalCells ==
    [x \in {"Contributor Name", "Unit Holder ID", "Withdrawals", "Year", "Month"} |->
        CASE x = "Contributor Name" -> {T_Ama}
          [] x = "Unit Holder ID" -> {T_A12, T_B34}
          [] x = "Withdrawals" -> {<<"0">>, <<"-", "5", "0">>, <<"7", "5">>, <<>>, T_abc}
          [] x = "Year" -> {T_2021}
          [] x = "Month" -> {T_Jan}]

\* Withdrawals in several periods, of people with a birth date
DatedWithdrawalCells ==
    [x \in {"Withdrawals", "Year", "Month", "Date_of_Birth"} |->
        CASE x = "Withdrawals" -> {<<"-", "5", "0">>, <<"7", "5">>}
          [] x = "Year" -> {T_2021, T_2022}
          [] x = "Month" -> {T_Jan}
          [] x = "Date_of_Birth" -> {T_born_1964}]

WithdrawalDisks ==
    NoDataDisks
      \cup DisksOver(<<"Contributor Name", "Unit Holder ID", "Withdrawals", "Year", "Month">>,
                     WithdrawalCells)
      \cup DisksOver(<<"Withdrawals", "Year", "Month", "Date_of_Birth">>, DatedWithdrawalCells)
      \cup DisksOver(<<"Unit Holder ID", "Year">>, WithdrawalCells)

RetireeCells ==
    [x \in {"Contributor Name", "Unit Holder ID", "Date_of_Birth", "DOB", "Birth_Date",
            "Year", "Month"} |->
        CASE x = "Contributor Name" -> {T_Ama}
          [] x = "Unit Holder ID" -> {T_A12, T_B34}
          [] x = "Date_of_Birth" -> {T_born_1964, T_born_1950, T_born_2000, <<>>, T_no_date}
          [] x = "DOB" -> {T_born_1964, T_no_date}
          [] x = "Birth_Date" -> {T_born_1950, T_born_2000}
          [] x = "Year" -> {T_2021}
          [] x = "Month" -> {T_Jan}]

RetireeDisks ==
    NoDataDisks
      \cup DisksOver(<<"Contributor Name", "Unit Holder ID", "Date_of_Birth", "Year", "Month">>,
                     RetireeCells)
      \cup DisksOver(<<"Birth_Date", "DOB">>, RetireeCells)
      \cup DisksOver(<<"Unit Holder ID", "Year">>, RetireeCells)

\* Source files that replace one another while the application runs
SnapshotCells ==
    [x \in {"Contributor Name", "Unit Holder ID", "Withdrawals", "Date_of_Birth",
            "Year", "Month"} |->
        CASE x = "Contributor Name" -> {T_Ama}
          [] x = "Unit Holder ID" -> {T_A12, T_B34}
          [] x = "Withdrawals" -> {<<"7", "5">>}
          [] x = "Date_of_Birth" -> {T_born_1950}
          [] x = "Year" -> {T_2021}
          [] x = "Month" -> {T_Jan}]

SnapshotDisks ==
    NoDataDisks
      \cup DisksOver(<<"Contributor Name", "Unit Holder ID", "Withdrawals", "Date_of_Birth",
                       "Year", "Month">>, SnapshotCells)

\* The days calculate_age is run on
Todays == {20240614, 20240615, 20240616, 20240229, 20250228, 20250301, 20241231}

\* The arguments calculate_age is called with: a missing value, Timestamps,
\* text that is a date and text that is none, and a number
BirthDates ==
    {NaN, StrV(T_born_2000), StrV(T_born_1964), StrV(T_no_date), IntV(19640615)}
      \cup {DateV(y * 10000 + md) : y \in {1964, 2000}, md \in {229, 614, 615, 616, 1231}}
      \cup {DateV(20240615), DateV(20300101)}

\* The identifiers the lookup is called with: text and a number
Queries == {StrV(T_123_padded), IntV(123), StrV(T_A12), StrV(T_999)}

\* The texts typed into the input box of the lookup tab
InputTexts == {<<>>, <<" ", "A", "1", " ">>, T_123_padded, T_A12, T_999}

\* The input box and the Search button in one run: a text submitted, or the
\* box left empty with the button pressed or not
LookupInputs ==
    {<<text, TRUE>> : text \in InputTexts} \cup {<<(<<>>), FALSE>>}

\* The values of the widgets of the withdrawals tab
SearchTexts == {<<>>, <<"a", "1">>}

MinAmounts == {<<>>, <<50>>, <<60>>}

WithdrawalTypes == {"All", "Positive Only", "Negative Only"}

\* The values of the age widgets of the retirees tab
AgeRanges == {<<60, 100>>, <<61, 100>>}

----------------------------------------------------------------------------
(* The program *)

Idle == [op |-> "none"]

\* main() with load_data not cached: every run reads the directory again
MainUncached ==
    /\ out = Idle
    /\ LET r == load_data(disk)
       IN  /\ cache' = <<r>>
           /\ df' = r.df
           /\ filename' = r.filename
           /\ pc' = IF IsEmpty(r.df) THEN "stopped" ELSE "ready"
           /\ out' = [op |-> "main", diag |-> r.diag, cached |-> FALSE]
    /\ UNCHANGED <<disk, today>>

\* One run of main() up to the tabs: load_data() through st.cache_data, then
\* st.stop() if the frame is empty
Main ==
    /\ out = Idle
    /\ LET r == IF cache = <<>> THEN load_data(disk) ELSE cache[1]
       IN  /\ cache' = <<r>>
           /\ df' = r.df
           /\ filename' = r.filename
           /\ pc' = IF IsEmpty(r.df) THEN "stopped" ELSE "ready"
           /\ out' = [op |-> "main", diag |-> r.diag, cached |-> cache # <<>>]
    /\ UNCHANGED <<disk, today>>

\* A Refresh Data button drawn before st.stop(), in a stopped run as well
RefreshWhenStopped ==
    /\ out = Idle
    /\ pc # "start"
    /\ LET r == load_data(disk)
       IN  /\ cache' = <<r>>
           /\ df' = r.df
           /\ filename' = r.filename
           /\ pc' = IF IsEmpty(r.df) THEN "stopped" ELSE "ready"
           /\ out' = [op |-> "refresh", diag |-> r.diag, cached |-> FALSE]
    /\ UNCHANGED <<disk, today>>

\* The Refresh Data button of the sidebar, which a stopped run never draws:
\* st.cache_data.clear(), st.rerun()
Refresh ==
    /\ out = Idle
    /\ pc = "ready"
    /\ LET r == load_data(disk)
       IN  /\ cache' = <<r>>
           /\ df' = r.df
           /\ filename' = r.filename
           /\ pc' = IF IsEmpty(r.df) THEN "stopped" ELSE "ready"
           /\ out' = [op |-> "refresh", diag |-> r.diag, cached |-> FALSE]
    /\ UNCHANGED <<disk, today>>

\* records_lookup_tab in a run that reached the tabs
LookupTab(text, button) ==
    /\ out = Idle
    /\ pc = "ready"
    /\ out' = records_lookup_tab(df, text, button)
    /\ UNCHANGED <<disk, today, cache, df, filename, pc>>

\* withdrawals_tab in a run that reached the tabs
WithdrawalsTab(search, min, type) ==
    /\ out = Idle
    /\ pc = "ready"
    /\ out' = withdrawals_tab(df, today, search, min, type)
    /\ UNCHANGED <<disk, today, cache, df, filename, pc>>

\* retirees_tab in a run that reached the tabs
RetireesTab(search, range) ==
    /\ out = Idle
    /\ pc = "ready"
    /\ out' = retirees_tab(df, today, search, range[1], range[2])
    /\ UNCHANGED <<disk, today, cache, df, filename, pc>>

\* The query layer called on the frame load_data returned, empty or not
Search(q) ==
    /\ out = Idle
    /\ pc # "start"
    /\ out' = [op |-> "search", q |-> q, res |-> search_by_unit_holder_id(df, q)]
    /\ UNCHANGED <<disk, today, cache, df, filename, pc>>

GetWithdrawals ==
    /\ out = Idle
    /\ pc # "start"
    /\ out' = [op |-> "withdrawals", res |-> get_withdrawal_records(df, today)]
    /\ UNCHANGED <<disk, today, cache, df, filename, pc>>

GetRetirees ==
    /\ out = Idle
    /\ pc # "start"
    /\ out' = [op |-> "retirees", res |-> get_retiree_records(df, today)]
    /\ UNCHANGED <<disk, today, cache, df, filename, pc>>

\* The run is over: what it rendered is gone with the next one
EndRun ==
    /\ out # Idle
    /\ out' = Idle
    /\ UNCHANGED <<disk, today, cache, df, filename, pc>>

\* The directory changes under the running application: the file is
\* replaced, removed or put there.  load_data sees it when it next runs
\* os.listdir and pd.read_csv
ChangeFile(dsk) ==
    /\ dsk # disk
    /\ disk' = dsk
    /\ UNCHANGED <<today, cache, df, filename, pc, out>>

InitOn(disks, days) ==
    /\ disk \in disks
    /\ today \in days
    /\ cache = <<>>
    /\ df = EmptyDF
    /\ filename = ""
    /\ pc = "start"
    /\ out = Idle

\* calculate_age called on its own
CalcAge(b) ==
    /\ out = Idle
    /\ out' = [op |-> "age", b |-> b, res |-> calculate_age(b, today)]
    /\ UNCHANGED <<disk, today, cache, df, filename, pc>>

\* The tabs and the queries read the frame and change nothing, so each
\* specification runs main() with the operations of one view, on source
\* files that vary the columns this view reads.

Init == InitOn(LookupDisks, {20240615})

Next ==
    \/ Main
    \/ Refresh
    \/ \E input \in LookupInputs : LookupTab(input[1], input[2])
    \/ \E q \in Queries : Search(q)
    \/ EndRun

Spec == Init /\ [][Next]_vars

InitWithdrawals == InitOn(WithdrawalDisks, {20240615})

NextWithdrawals ==
    \/ Main
    \/ Refresh
    \/ \E search \in SearchTexts, min \in MinAmounts, type \in WithdrawalTypes :
          WithdrawalsTab(search, min, type)
    \/ GetWithdrawals
    \/ EndRun

SpecWithdrawals == InitWithdrawals /\ [][NextWithdrawals]_vars

InitRetirees == InitOn(RetireeDisks, {20240614, 20240615})

NextRetirees ==
    \/ Main
    \/ Refresh
    \/ \E search \in SearchTexts, range \in AgeRanges : RetireesTab(search, range)
    \/ GetRetirees
    \/ EndRun

SpecRetirees == InitRetirees /\ [][NextRetirees]_vars

\* One session with its three tabs while the directory changes
InitSnapshot == InitOn(SnapshotDisks, {20240615})

NextSnapshot ==
    \/ Main
    \/ Refresh
    \/ \E text \in {T_A12, T_999} : LookupTab(text, TRUE)
    \/ \E type \in WithdrawalTypes : WithdrawalsTab(<<>>, <<>>, type)
    \/ \E range \in AgeRanges : RetireesTab(<<>>, range)
    \/ \E dsk \in SnapshotDisks : ChangeFile(dsk)
    \/ EndRun

SpecSnapshot == InitSnapshot /\ [][NextSnapshot]_vars

InitAge == InitOn({<<>>}, Todays)

NextAge ==
    \/ \E b \in BirthDates : CalcAge(b)
    \/ EndRun

SpecAge == InitAge /\ [][NextAge]_vars

----------------------------------------------------------------------------
(* What the properties are stated with.  None of this is used by the model *)
(* of the program above.                                                   *)

\* The index labels of the rows of a frame
Labels(d) == {d.rows[i].idx : i \in 1..NRows(d)}

\* The row of d with index label l
RowAt(d, l) == d.rows[CHOOSE i \in 1..NRows(d) : d.rows[i].idx = l]

\* A field of a record, absent when the frame has no such column
Field(r, x) == IF x \in DOMAIN r.c THEN r.c[x] ELSE NaN

\* Ascending order of two (year, month rank) pairs, absent values last
Precedes(a, b) ==
    LET before(x, y) == ~IsNa(x) /\ (IsNa(y) \/ x.n < y.n)
        same(x, y) == (IsNa(x) /\ IsNa(y)) \/ (~IsNa(x) /\ ~IsNa(y) /\ x.n = y.n)
    IN  \/ before(Field(a, "Year"), Field(b, "Year"))
        \/ /\ same(Field(a, "Year"), Field(b, "Year"))
           /\ \/ before(Field(a, "Month_numeric"), Field(b, "Month_numeric"))
              \/ same(Field(a, "Month_numeric"), Field(b, "Month_numeric"))

\* Consecutive rows are in ascending (Year, Month_numeric) order
Chronological(d) == \A i \in 1..(NRows(d) - 1) : Precedes(d.rows[i], d.rows[i + 1])

\* The trimmed string form of an identifier
Trimmed(v) ==
    LET s == CASE v.k = "int" -> IntText(v.n)
               [] v.k = "float" -> IntText(v.n) \o <<".", "0">>
               [] v.k = "nan" -> T_nan
               [] OTHER -> v.s
        first == CHOOSE i \in 1..(Len(s) + 1) :
                    /\ \A j \in 1..(i - 1) : s[j] \in {" ", "\t"}
                    /\ i = Len(s) + 1 \/ s[i] \notin {" ", "\t"}
        last == CHOOSE i \in 0..Len(s) :
                    /\ \A j \in (i + 1)..Len(s) : s[j] \in {" ", "\t"}
                    /\ i = 0 \/ s[i] \notin {" ", "\t"}
    IN  SubSeq(s, first, last)

\* The rows of d whose identifier is q, by index label
RowsOf(d, q) ==
    IF "Unit Holder ID" \in Columns(d)
    THEN {d.rows[i].idx : i \in {j \in 1..NRows(d) :
                                   Trimmed(d.rows[j].c["Unit Holder ID"]) = Trimmed(q)}}
    ELSE {}

\* The file load_data read
Source == FileToUse(disk)

\* The age on day t of someone born on day b: the number of birthdays passed
BirthdaysPassed(b, t) ==
    CHOOSE a \in (0 - 200)..200 :
        /\ b + a * 10000 <= t
        /\ t < b + (a + 1) * 10000

\* Two cells hold the same value, whichever numeric dtype the column got
SameValue(a, b) ==
    LET form(v) == IF IsNum(v) THEN IntText(v.n) ELSE Str(v)
    IN  IsNa(a) = IsNa(b) /\ form(a) = form(b)

\* The frame load_data builds from an exported file
Reloaded(f) == load_data(<<f>>).df

\* Loading the export f of the rows sel again gives, row by row, the values
\* the rows had in the loaded frame, for every column of the source
RoundTrips(f, sel) ==
    /\ NRows(Reloaded(f)) = NRows(sel)
    /\ \A i \in 1..NRows(sel) : \A x \in FileColumns(Source) :
          /\ x \in Columns(Reloaded(f))
          /\ SameValue(Reloaded(f).rows[i].c[x], RowAt(df, sel.rows[i].idx).c[x])

----------------------------------------------------------------------------
(* Properties *)

\* C1: for every dataset and every identifier that matches at least one row,
\* the lookup returns as history all matching rows in ascending
\* (Year, Month_numeric) order and as latest exactly the last row of that
\* history.
C1_LatestOfOrderedHistory ==
    (out.op = "search" /\ RowsOf(df, out.q) # {}) =>
        /\ ~out.res.raised
        /\ Labels(out.res.history) = RowsOf(df, out.q)
        /\ NRows(out.res.history) = Cardinality(RowsOf(df, out.q))
        /\ Chronological(out.res.history)
        /\ NRows(out.res.latest) = 1
        /\ out.res.latest.rows[1] = out.res.history.rows[NRows(out.res.history)]

\* C2: for every dataset and every identifier that matches no row of it (a
\* dataset without the identifier column and the empty dataset included),
\* the lookup returns two empty collections and raises no error.
C2_NoMatchIsEmpty ==
    (out.op = "search" /\ RowsOf(df, out.q) = {}) =>
        /\ ~out.res.raised
        /\ out.res.latest = EmptyDF
        /\ out.res.history = EmptyDF

\* C2 happens: a lookup of an identifier that no row of a loaded, non-empty
\* dataset with an identifier column has
C2_Witness ==
    /\ out.op = "search"
    /\ pc = "ready"
    /\ "Unit Holder ID" \in Columns(df)
    /\ RowsOf(df, out.q) = {}
    /\ out.res.history = EmptyDF

\* C3: a row is in the history of a lookup if and only if the trimmed string
\* form of its stored identifier equals the trimmed string form of the
\* query, so the queries " 123 " and 123 find a row stored as 123.
C3_MatchOnTrimmedStrings ==
    (out.op = "search" /\ ~out.res.raised) =>
        /\ Labels(out.res.history) = RowsOf(df, out.q)
        /\ \A i \in 1..NRows(df) :
              ("Unit Holder ID" \in Columns(df)
                 /\ Trimmed(df.rows[i].c["Unit Holder ID"]) = T_123
                 /\ out.q \in {StrV(T_123_padded), IntV(123)})
              => df.rows[i].idx \in Labels(out.res.history)

\* C3 happens: the number 123 finds a row whose identifier was read as text
\* with surrounding white space kept in the column
C3_Witness ==
    /\ out.op = "search"
    /\ out.q = IntV(123)
    /\ NRows(out.res.history) > 0
    /\ \E i \in 1..NRows(df) : df.rows[i].c["Unit Holder ID"] = StrV(T_A12_padded)
    /\ \E i \in 1..NRows(df) : df.rows[i].c["Unit Holder ID"] = StrV(T_123)


\* C4: get_withdrawal_records partitions the rows of a loaded dataset
\* exactly: a returned row has Withdrawals different from 0, sign kept; a
\* row not returned has Withdrawals equal to 0, the rows whose source cell
\* was missing or not a number among them; no row is duplicated or invented.
C4_WithdrawalPartition ==
    out.op = "withdrawals" =>
        IF "Withdrawals" \in Columns(df)
        THEN /\ Labels(out.res) \subseteq Labels(df)
             /\ Cardinality(Labels(out.res)) = NRows(out.res)
             /\ \A i \in 1..NRows(out.res) :
                   /\ IsNum(out.res.rows[i].c["Withdrawals"])
                   /\ out.res.rows[i].c["Withdrawals"].n # 0
                   /\ \A x \in Columns(df) :
                         out.res.rows[i].c[x] = RowAt(df, out.res.rows[i].idx).c[x]
             /\ \A l \in Labels(df) \ Labels(out.res) :
                   /\ IsNum(RowAt(df, l).c["Withdrawals"])
                   /\ RowAt(df, l).c["Withdrawals"].n = 0
             /\ \A l \in Labels(df) :
                   LET cell == Source.rows[l + 1]["Withdrawals"]
                   IN  IF IsIntText(cell) /\ ParseNum(cell) # 0
                       THEN /\ l \in Labels(out.res)
                            /\ RowAt(out.res, l).c["Withdrawals"].n = ParseNum(cell)
                       ELSE l \notin Labels(out.res)
        ELSE out.res = EmptyDF

\* C4 happens: a negative withdrawal is returned and a row whose withdrawals
\* were not a number in the source is left out
C4_Witness ==
    /\ out.op = "withdrawals"
    /\ \E i \in 1..NRows(out.res) : out.res.rows[i].c["Withdrawals"].n < 0
    /\ \E l \in Labels(df) \ Labels(out.res) :
          Source.rows[l + 1]["Withdrawals"] \in {<<>>, T_abc}

\* C5: every row get_retiree_records returns has a numeric age of at least
\* 60, a row without a birth date is never returned, and every row whose
\* age is at least 60 is returned.
C5_RetireesAreSixtyOrOlder ==
    out.op = "retirees" =>
        IF "birth_date" \in Columns(df)
        THEN /\ Labels(out.res) \subseteq Labels(df)
             /\ Cardinality(Labels(out.res)) = NRows(out.res)
             /\ \A i \in 1..NRows(out.res) :
                   /\ out.res.rows[i].c["Age"].k = "int"
                   /\ out.res.rows[i].c["Age"].n >= 60
                   /\ out.res.rows[i].c["birth_date"].k = "date"
                   /\ out.res.rows[i].c["Age"].n
                        = BirthdaysPassed(out.res.rows[i].c["birth_date"].n, today)
             /\ \A i \in 1..NRows(df) :
                   IsNa(df.rows[i].c["birth_date"]) => df.rows[i].idx \notin Labels(out.res)
             /\ \A i \in 1..NRows(df) :
                   (/\ df.rows[i].c["birth_date"].k = "date"
                    /\ BirthdaysPassed(df.rows[i].c["birth_date"].n, today) >= 60)
                   => df.rows[i].idx \in Labels(out.res)
        ELSE out.res = EmptyDF

\* C5 happens: someone who turns 60 today is returned and a row without a
\* birth date is left out
C5_Witness ==
    /\ out.op = "retirees"
    /\ \E i \in 1..NRows(out.res) :
          /\ out.res.rows[i].c["Age"] = IntV(60)
          /\ out.res.rows[i].c["birth_date"] = DateV(19640615)
    /\ \E i \in 1..NRows(df) :
          /\ IsNa(df.rows[i].c["birth_date"])
          /\ df.rows[i].idx \notin Labels(out.res)

C7_ValidationPrecedesLookup ==
    out.op = "lookup_tab" =>
        /\ ((out.button \/ out.text # <<>>) /\ Len(Trimmed(StrV(out.text))) < 3)
              => (out.box = "error" /\ out.reason # "" /\ ~out.searched)
        /\ out.searched
              => (Len(Trimmed(StrV(out.text))) >= 3 /\ out.arg = Trimmed(StrV(out.text)))

\* C8: every dataset load_data returns is sorted: consecutive rows are in
\* ascending (Year, Month_numeric) order, rows with an absent year (within a
\* year, an absent month rank) after the rows that have one.
C8_LoadedDatasetIsSorted == pc # "start" => Chronological(df)

\* C9: an export of the lookup view, loaded again with load_data, has for
\* every column of the source the value of the originally loaded row, the
\* month under its own name with its original text.
C9_ExportRoundTrip ==
    (out.op = "lookup_tab" /\ out.export_latest # <<>>) =>
        /\ RoundTrips(out.export_latest[1], out.latest)
        /\ out.export_all # <<>> => RoundTrips(out.export_all[1], out.history)

\* C10: an export has exactly the columns of the source file, in the order
\* of the source file: no derived column is added, no source column is
\* dropped or moved.
C10_ExportHasSourceColumns ==
    (out.op = "lookup_tab" /\ out.export_latest # <<>>) =>
        /\ out.export_latest[1].cols = Source.cols
        /\ out.export_all # <<>> => out.export_all[1].cols = Source.cols

\* C11: the secondary filters of the withdrawals tab keep exactly the
\* withdrawal records (Withdrawals different from 0) that satisfy every
\* active filter: the identifier contains the search text, the absolute
\* amount is at least the minimum when one is set, the amount is above 0
\* under "Positive Only" and below 0 under "Negative Only"; a row with
\* Withdrawals 0 is never kept; the table shows the rows kept.
C11_FiltersKeepExactly ==
    out.op = "withdrawals_tab" =>
        IF out.filtered = <<>> THEN out.shown = EmptyDF
        ELSE LET f == out.filtered[1]
                 amount(l) == RowAt(df, l).c["Withdrawals"].n
                 satisfies(l) ==
                     /\ amount(l) # 0
                     /\ out.search # <<>> =>
                           Contains(Str(RowAt(df, l).c["Unit Holder ID"]), out.search)
                     /\ out.min # <<>> =>
                           \/ amount(l) >= out.min[1]
                           \/ 0 - amount(l) >= out.min[1]
                     /\ out.type = "Positive Only" => amount(l) > 0
                     /\ out.type = "Negative Only" => amount(l) < 0
             IN  /\ Labels(f) = {l \in Labels(df) : satisfies(l)}
                 /\ Cardinality(Labels(f)) = NRows(f)
                 /\ \A i \in 1..NRows(f) :
                       f.rows[i].c["Withdrawals"] = RowAt(df, f.rows[i].idx).c["Withdrawals"]
                 /\ out.box = "results" => out.shown = f
                 /\ out.box # "results" => out.shown = EmptyDF
                 /\ NRows(f) = 0 => out.box = "no_match"

\* C11 happens: with a minimum of 50 and "Negative Only" the table shows a
\* withdrawal of -50 and hides one of 75
C11_Witness ==
    /\ out.op = "withdrawals_tab"
    /\ out.box = "results"
    /\ out.min = <<50>>
    /\ out.type = "Negative Only"
    /\ \E i \in 1..NRows(out.shown) : out.shown.rows[i].c["Withdrawals"].n = 0 - 50
    /\ \E l \in Labels(df) \ Labels(out.shown) : RowAt(df, l).c["Withdrawals"].n = 75

\* C12: between loads the dataset is a snapshot: no lookup, withdrawal or
\* retiree view, filter, export or rerun changes its rows, values, row
\* order or columns, whatever happens to the source file meanwhile; it
\* changes only in the first load of the session and in a Refresh Data
\* step, and after a Refresh Data step it is the dataset built from the
\* file the directory holds at that moment, nothing of the old one kept.
C12_SnapshotUntilRefresh ==
    [][LET first_load == pc = "start" /\ out = Idle /\ out'.op = "main"
           refresh == out = Idle /\ out'.op = "refresh"
       IN  /\ ~(first_load \/ refresh) => df' = df /\ filename' = filename
           /\ first_load \/ refresh =>
                 /\ df' = load_data(disk').df
                 /\ filename' = load_data(disk').filename]_vars

\* C12 happens: the lookup finds a record in the loaded dataset after the
\* file it was loaded from has been replaced by a different one
C12_Witness ==
    /\ out.op = "lookup_tab"
    /\ out.box = "found"
    /\ ~IsEmpty(load_data(disk).df)
    /\ load_data(disk).df # df

\* C13: a load that finds no file, or whose read fails, gives an empty
\* dataset, an empty file name and an error message, and main stops; from
\* then on the session stays stopped: every later run stops before the
\* tabs, no lookup, withdrawal or retiree view runs and the dataset stays
\* empty, even when a readable file appears in the directory.
C13_LoadFailureIsTerminal ==
    [][/\ (/\ out = Idle
           /\ out'.op \in {"main", "refresh"}
           /\ ~out'.cached
           /\ disk' = <<>> \/ disk'[1].cols = <<>>)
          => /\ df' = EmptyDF
             /\ filename' = ""
             /\ out'.diag \in {"No CSV files found", "Error loading data"}
             /\ pc' = "stopped"
       /\ pc = "stopped"
          => /\ pc' = "stopped"
             /\ df' = df
             /\ IsEmpty(df')
             /\ out' # out => out'.op \in {"none", "main"}
             /\ out'.op \notin {"lookup_tab", "withdrawals_tab", "retirees_tab"}]_vars

\* C13 happens: a rerun of a session whose load found nothing stops again
\* although the directory now holds a file with records
C13_Witness ==
    /\ pc = "stopped"
    /\ filename = ""
    /\ out.op = "main"
    /\ out.cached
    /\ ~IsEmpty(load_data(disk).df)

\* C14: absent values sort last, so whenever an identifier has a row whose
\* Year is absent, search_by_unit_holder_id returns such a row as latest,
\* ahead of every row with a valid year; and when it has none, but a row of
\* its greatest year has an unrecognised month, latest is a row of that
\* year with an unrecognised month.
C14_AbsentSortsLast ==
    (/\ out.op = "search"
     /\ ~out.res.raised
     /\ NRows(out.res.history) > 0
     /\ "Year" \in Columns(df)) =>
        LET h == out.res.history
            last == out.res.latest.rows[1]
            no_year(r) == IsNa(Field(r, "Year"))
            no_month(r) == IsNa(Field(r, "Month_numeric"))
            newest(r) == \A j \in 1..NRows(h) : Field(h.rows[j], "Year").n <= Field(r, "Year").n
        IN  IF \E i \in 1..NRows(h) : no_year(h.rows[i])
            THEN no_year(last)
            ELSE ("Month_numeric" \in Columns(df)
                    /\ \E i \in 1..NRows(h) : newest(h.rows[i]) /\ no_month(h.rows[i]))
                 => newest(last) /\ no_month(last)

=============================================================================
